---- MODULE Spec2Model ----
(***************************************************************************)
(* A model of cliconfig.Loader (src/cliconfig/loader.go): Loader.Load and  *)
(* the helpers it calls.  Load is one synchronous pass; the model splits   *)
(* it at the statements of its loop body so that the position of the pass  *)
(* (pc, idx) is part of the state.                                         *)
(*                                                                         *)
(* A Go string is a sequence of symbols.  A symbol is one character        *)
(* wherever the code looks inside the string (splitting on commas,         *)
(* parsing digits, matching `arg:(\d+)`, trimming spaces) and a whole word *)
(* where the code only compares or prints the string.                      *)
(***************************************************************************)
EXTENDS Integers, Sequences, FiniteSets, TLC

\* ------------------------------------------------------------- bounds
\* longest positional argument list
MaxArgs == 1
\* longest list of default config file paths
MaxDefaults == 2
\* longest list value given to a flag, and its longest element
MaxListLen == 2
MaxStrLen == 2

\* ------------------------------------------------- strings (Go stdlib)
DigitSeq == <<"0", "1", "2", "3", "4", "5", "6", "7", "8", "9">>
Digits == { DigitSeq[i] : i \in 1..10 }
DigitVal(c) == (CHOOSE i \in 1..10 : DigitSeq[i] = c) - 1

RECURSIVE DigitsVal(_)
DigitsVal(s) ==
  IF Len(s) = 0 THEN 0
  ELSE 10 * DigitsVal(SubSeq(s, 1, Len(s) - 1)) + DigitVal(s[Len(s)])

\* strconv.Atoi: an optional sign, then one or more decimal digits; (0, err)
\* for anything else.  (The strings of the model are far shorter than the 19
\* digits at which Atoi reports a range error.)
Atoi(s) ==
  LET signed == Len(s) > 0 /\ s[1] \in {"+", "-"}
      body == IF signed THEN Tail(s) ELSE s
      ok == Len(body) > 0 /\ \A i \in 1..Len(body) : body[i] \in Digits
  IN  IF ok
      THEN [n |-> IF signed /\ s[1] = "-" THEN 0 - DigitsVal(body) ELSE DigitsVal(body),
            ok |-> TRUE]
      ELSE [n |-> 0, ok |-> FALSE]

\* strconv.ParseBool: the accepted spellings of true; every other string is
\* false (a spelling of false, or an error whose value is false).
TrueSpellings ==
  { <<"1">>, <<"t">>, <<"T">>, <<"T", "R", "U", "E">>, <<"t", "r", "u", "e">>,
    <<"T", "r", "u", "e">> }
ParseBool(s) == s \in TrueSpellings

\* strings.Split(s, ","): the substrings between the commas; Split("") is [""].
RECURSIVE Split(_)
Split(s) ==
  IF \A i \in 1..Len(s) : s[i] # ","
  THEN <<s>>
  ELSE LET p == CHOOSE i \in 1..Len(s) : s[i] = "," /\ \A j \in 1..(i - 1) : s[j] # ","
       IN  <<SubSeq(s, 1, p - 1)>> \o Split(SubSeq(s, p + 1, Len(s)))

\* strings.TrimSpace
RECURSIVE TrimSpace(_)
TrimSpace(s) ==
  IF Len(s) > 0 /\ s[1] = " " THEN TrimSpace(Tail(s))
  ELSE IF Len(s) > 0 /\ s[Len(s)] = " " THEN TrimSpace(SubSeq(s, 1, Len(s) - 1))
  ELSE s

\* argCliNameRegexp.FindStringSubmatch: the leftmost match of `arg:(\d+)`, its
\* digits taken greedily; <<>> when there is none, else <<match, digits>>.
ArgPrefix == <<"a", "r", "g", ":">>
ArgMatchAt(s, p) ==
  /\ p + 4 <= Len(s)
  /\ SubSeq(s, p, p + 3) = ArgPrefix
  /\ s[p + 4] \in Digits
FindStringSubmatch(s) ==
  IF \E p \in 1..Len(s) : ArgMatchAt(s, p)
  THEN LET p == CHOOSE q \in 1..Len(s) :
                  ArgMatchAt(s, q) /\ \A r \in 1..(q - 1) : ~ArgMatchAt(s, r)
           e == CHOOSE q \in (p + 4)..Len(s) :
                  /\ \A r \in (p + 4)..q : s[r] \in Digits
                  /\ (q = Len(s) \/ s[q + 1] \notin Digits)
       IN  <<SubSeq(s, p, e), SubSeq(s, p + 4, e)>>
  ELSE <<>>

\* ------------------------------------------------------------- values
\* An interface{} value: its dynamic type k and the value v; Nil is the nil
\* interface.  The four kinds the loader handles, and one it does not.
Nil == [k |-> "nil", v |-> FALSE]
StringV(s) == [k |-> "string", v |-> s]
SliceV(l) == [k |-> "slice", v |-> l]
BoolV(b) == [k |-> "bool", v |-> b]
IntV(n) == [k |-> "int", v |-> n]
Kinds == {"string", "slice", "bool", "int"}
ZeroValue(kind) ==
  CASE kind = "string" -> StringV(<<>>)
    [] kind = "slice" -> SliceV(<<>>)
    [] kind = "bool" -> BoolV(FALSE)
    [] kind = "int" -> IntV(0)
    [] OTHER -> [k |-> kind, v |-> 0]

\* ------------------------------------------- the target's struct types
\* One field of the struct behind l.Config: its name, kind and tags (<<>> is
\* a missing tag).
Field(name, kind, cli) ==
  [name |-> name, kind |-> kind, cli |-> cli, env |-> <<>>, normalize |-> <<>>,
   renamedTo |-> <<>>, deprecated |-> <<>>, validate |-> <<>>, label |-> <<>>]
Flag(name, envVar) == [Name |-> name, EnvVar |-> envVar]
ArgName(i) == ArgPrefix \o <<DigitSeq[i + 1]>>

OldField == [Field(<<"Old">>, "int", <<"old">>) EXCEPT !.renamedTo = <<"New">>]
NewField == Field(<<"New">>, "int", <<"new">>)
RenameFlags == <<Flag(<<"old">>, <<>>), Flag(<<"new">>, <<" ", "NEW_ENV">>)>>
TagsField == [Field(<<"Tags">>, "slice", <<"tags">>) EXCEPT !.normalize = <<"list">>]
OldTagsField ==
  [Field(<<"OldTags">>, "slice", <<"old-tags">>) EXCEPT
     !.normalize = <<"list">>, !.renamedTo = <<"Tags">>]
NameField ==
  [Field(<<"Name">>, "string", <<"name">>) EXCEPT
     !.validate = <<"required", ",", "file-exists">>, !.label = <<"the name">>]
RawField == [Field(<<"Raw">>, "string", <<>>) EXCEPT !.validate = <<"required">>]

Schemas ==
  { \* a deprecated field declared before its replacement
    [fields |-> <<OldField, NewField>>, flags |-> RenameFlags],
    \* ... and after it, the replacement without and with a validation
    [fields |-> <<NewField, OldField>>, flags |-> RenameFlags],
    [fields |-> <<[NewField EXCEPT !.validate = <<"required">>], OldField>>,
     flags |-> RenameFlags],
    \* a replacement that has no binding name
    [fields |-> <<Field(<<"Verbose">>, "bool", <<"verbose">>),
                  [Field(<<"Legacy">>, "string", <<"legacy">>) EXCEPT
                     !.renamedTo = <<"Target">>],
                  Field(<<"Target">>, "string", <<>>)>>,
     flags |-> <<Flag(<<"verbose">>, <<>>), Flag(<<"legacy">>, <<>>)>>],
    \* positional fields, with and without an environment fallback
    [fields |-> <<[Field(<<"Pos">>, "string", ArgName(0)) EXCEPT !.env = <<"POS_ENV">>],
                  Field(<<"Second">>, "string", ArgName(1)),
                  NameField>>,
     flags |-> <<Flag(<<"name">>, <<>>)>>],
    \* list fields, normalized, one renamed to the other
    [fields |-> <<TagsField, OldTagsField>>,
     flags |-> <<Flag(<<"tags">>, <<>>), Flag(<<"old-tags">>, <<>>)>>],
    \* a plainly deprecated flag and two normalized paths
    [fields |-> <<[Field(<<"Debug">>, "bool", <<"debug">>) EXCEPT
                     !.deprecated = <<"use --log-level">>],
                  [Field(<<"Path">>, "string", <<"path">>) EXCEPT
                     !.normalize = <<"filepath">>, !.validate = <<"file-exists">>],
                  [Field(<<"Hook">>, "string", <<"hook">>) EXCEPT
                     !.normalize = <<"commandpath">>]>>,
     flags |-> <<Flag(<<"debug">>, <<"DEBUG_ENV">>), Flag(<<"path">>, <<>>),
                 Flag(<<"hook">>, <<>>)>>],
    \* schema and assignment errors
    [fields |-> <<Field(<<"Count">>, "int", ArgName(0)), RawField,
                  [Field(<<"Odd">>, "string", <<"odd">>) EXCEPT !.normalize = <<"bogus">>]>>,
     flags |-> <<Flag(<<"odd">>, <<>>)>>],
    [fields |-> <<[Field(<<"Strict">>, "string", <<"strict">>) EXCEPT
                     !.validate = <<"required", ",", "nonempty">>],
                  RawField>>,
     flags |-> <<Flag(<<"strict">>, <<>>)>>],
    [fields |-> <<[Field(<<"Size">>, "int", <<"size">>) EXCEPT
                     !.normalize = <<"filepath">>],
                  RawField>>,
     flags |-> <<Flag(<<"size">>, <<>>)>>],
    [fields |-> <<RawField, Field(<<"Ratio">>, "float64", <<"ratio">>), NewField>>,
     flags |-> <<Flag(<<"ratio">>, <<>>), Flag(<<"new">>, <<>>)>>] }

\* -------------------------------------------------------------- state
VARIABLES
  fields,                  \* the fields of l.Config's struct, in declaration order
  CLI,                     \* l.CLI: --config, positional args, set flags, flag values, flags
  Env,                     \* the process environment
  FS,                      \* the file system: existing paths, config file contents
  DefaultConfigFilePaths,  \* l.DefaultConfigFilePaths
  File,                    \* l.File
  Config,                  \* the values of l.Config's fields
  warnings,                \* Load's warnings
  err,                     \* Load's err
  pc,                      \* the statement of Load that runs next
  idx,                     \* the index of fieldName in fields
  consulted,               \* history: the paths whose existence was asked, in order
  ran,                     \* history: <<field index, step>> for every step applied
  validated                \* history: <<field name, value>> for every value validated

vars ==
  <<fields, CLI, Env, FS, DefaultConfigFilePaths, File, Config, warnings, err, pc, idx,
    consulted, ran, validated>>

Error(kind, label, help, detail) ==
  [kind |-> kind, label |-> label, help |-> help, detail |-> detail]
NoErr == Error("none", <<>>, FALSE, <<>>)
Failed(e) == e.kind # "none"
NoFile == [nil |-> TRUE, Path |-> <<>>, Config |-> <<>>]
Min(S) == CHOOSE x \in S : \A y \in S : x <= y
SeqsUpTo(S, n) == UNION { [1..k -> S] : k \in 0..n }

\* ------------------------------------------------------------- inputs
CfgPath == <<"/etc/agent.cfg">>
CliVals(kind) ==
  CASE kind = "string" -> { StringV(<<>>), StringV(<<"p">>) }
    [] kind = "slice" -> { SliceV(<<>>), SliceV(<< <<"a", ",", "b">>, <<>> >>) }
    [] kind = "bool" -> { BoolV(FALSE), BoolV(TRUE) }
    [] kind = "int" -> { IntV(0), IntV(5) }
    [] OTHER -> { ZeroValue(kind) }
FileVals(kind) ==
  CASE kind = "string" -> { <<>>, <<"q">> }
    [] kind = "slice" -> { <<>>, <<"c", ",", ",", "d">> }
    [] kind = "bool" -> { <<"t", "r", "u", "e">>, <<"n", "o">> }
    [] kind = "int" -> { <<"6">>, <<"x">> }
    [] OTHER -> { <<"1">> }
ArgVals == { <<>>, <<"v">> }
EnvVals ==
  { [set |-> FALSE, v |-> <<>>], [set |-> TRUE, v |-> <<>>], [set |-> TRUE, v |-> <<"e">>] }
ListChars == { "a", "b", "," }
SelectPaths == { <<"/a.cfg">>, <<"/b.cfg">>, <<"/c.cfg">> }

FieldIdx(S) == 1..Len(S.fields)
Bound(S) == { i \in FieldIdx(S) : S.fields[i].cli # <<>> }
Positional(S) == { i \in Bound(S) : FindStringSubmatch(S.fields[i].cli) # <<>> }
CliNames(S, I) == { S.fields[i].cli : i \in I }
KindOfCli(S, n) == S.fields[CHOOSE i \in Bound(S) : S.fields[i].cli = n].kind
EnvNames(S) ==
  ({ TrimSpace(S.flags[i].EnvVar) : i \in 1..Len(S.flags) }
     \cup { S.fields[i].env : i \in FieldIdx(S) }) \ { <<>> }
FlagVals(S) ==
  LET names == CliNames(S, Bound(S) \ Positional(S))
  IN  { f \in [names -> UNION { CliVals(KindOfCli(S, n)) : n \in names }] :
          \A n \in names : f[n] \in CliVals(KindOfCli(S, n)) }
FileMaps(S) ==
  UNION { { m \in [D -> UNION { FileVals(KindOfCli(S, n)) : n \in D }] :
              \A n \in D : m[n] \in FileVals(KindOfCli(S, n)) } :
          D \in SUBSET CliNames(S, Bound(S)) }
\* The target as the caller hands it over: zero, but for fields without a
\* binding name, which the caller may have filled.
Targets(S) ==
  LET names == { S.fields[i].name : i \in FieldIdx(S) }
      fld(n) == S.fields[CHOOSE i \in FieldIdx(S) : S.fields[i].name = n]
      choices(n) ==
        IF fld(n).cli = <<>> /\ fld(n).kind = "string"
        THEN { ZeroValue("string"), StringV(<<"preset">>) }
        ELSE { ZeroValue(fld(n).kind) }
  IN  { c \in [names -> UNION { choices(n) : n \in names }] :
          \A n \in names : c[n] \in choices(n) }

Start(S, cli, env, fs, defaults, cfg) ==
  /\ fields = S.fields
  /\ CLI = cli
  /\ Env = env
  /\ FS = fs
  /\ DefaultConfigFilePaths = defaults
  /\ Config = cfg
  /\ File = NoFile
  /\ warnings = <<>>
  /\ err = NoErr
  /\ pc = "select"
  /\ idx = 0
  /\ consulted = <<>>
  /\ ran = {}
  /\ validated = {}

\* Every struct type, under every combination of sources for its fields; one
\* default config file, which exists.
InitFields ==
  \E S \in Schemas :
    \E set \in SUBSET CliNames(S, Bound(S) \ Positional(S)), val \in FlagVals(S),
       env \in [EnvNames(S) -> EnvVals], m \in FileMaps(S), cfg \in Targets(S),
       args \in (IF Positional(S) = {} THEN { <<>> } ELSE SeqsUpTo(ArgVals, MaxArgs)) :
      Start(S,
            [config |-> <<>>, args |-> args, set |-> set, val |-> val, flags |-> S.flags],
            env,
            [exists |-> { CfgPath, <<"p">>, <<"/", "p">> },
             contents |-> [p \in { CfgPath } |-> m], bad |-> {}],
            <<CfgPath>>, cfg)

\* One struct type, under every choice of --config, default paths and
\* existing files; each file's content names the file.
SelectSchema ==
  [fields |-> <<Field(<<"Name">>, "string", <<"name">>)>>,
   flags |-> <<Flag(<<"name">>, <<>>)>>]
InitSelect ==
  \E config \in { <<>> } \cup SelectPaths, defaults \in SeqsUpTo(SelectPaths, MaxDefaults),
     exists \in SUBSET SelectPaths, bad \in SUBSET { <<"/c.cfg">> } :
    Start(SelectSchema,
          [config |-> config, args |-> <<>>, set |-> {},
           val |-> [n \in { <<"name">> } |-> StringV(<<>>)], flags |-> SelectSchema.flags],
          <<>>,
          [exists |-> exists, contents |-> [p \in SelectPaths |-> [n \in { <<"name">> } |-> p]],
           bad |-> bad],
          defaults, [n \in { <<"Name">> } |-> ZeroValue("string")])

\* One list field with `list` normalization, given every list within the bounds.
ListSchema == [fields |-> <<TagsField>>, flags |-> <<Flag(<<"tags">>, <<>>)>>]
ListExample == << <<"a", ",", "b">>, <<>>, <<"c">> >>
InitList ==
  \E l \in SeqsUpTo(SeqsUpTo(ListChars, MaxStrLen), MaxListLen) \cup { ListExample } :
    Start(ListSchema,
          [config |-> <<>>, args |-> <<>>, set |-> { <<"tags">> },
           val |-> [n \in { <<"tags">> } |-> SliceV(l)], flags |-> ListSchema.flags],
          <<>>,
          [exists |-> {}, contents |-> <<>>, bad |-> {}],
          <<>>, [n \in { <<"Tags">> } |-> ZeroValue("slice")])

Init == InitFields \/ InitSelect \/ InitList

\* --------------------------------------------- collaborators, as read
\* os.LookupEnv and os.Getenv
LookupEnv(name) == IF name \in DOMAIN Env THEN Env[name] ELSE [set |-> FALSE, v |-> <<>>]
Getenv(name) == IF LookupEnv(name).set THEN LookupEnv(name).v ELSE <<>>
\* os.Stat(path) succeeds
Stat(path) == path \in FS.exists
\* l.CLI.String / StringSlice / Bool / Int: the flag's value, or the zero
\* value when there is no flag of that name and type.
CliAccessor(cliName, kind) ==
  IF cliName \in DOMAIN CLI.val /\ CLI.val[cliName].k = kind
  THEN CLI.val[cliName]
  ELSE ZeroValue(kind)
\* reflections.SetField: fails unless the field exists and has the value's type.
SetFieldOk(cfg, name, value) == name \in DOMAIN cfg /\ cfg[name].k = value.k
SetField(cfg, name, value) == [cfg EXCEPT ![name] = value]
FieldNamed(name) == fields[CHOOSE i \in 1..Len(fields) : fields[i].name = name]
\* utils.NormalizeFilePath and utils.NormalizeCommand: an absolute path, the
\* working directory being "/".
NormalizeFilePath(s) == IF Len(s) = 0 \/ s[1] = "/" THEN s ELSE <<"/">> \o s
NormalizeCommand(s) == IF Len(s) = 0 \/ s[1] = "/" THEN s ELSE <<"/">> \o s

\* ------------------------------------------------------ Loader's helpers
FieldValueIsEmpty(cfg, fieldName) ==
  LET value == cfg[fieldName]
  IN  CASE value.k = "string" -> value.v = <<>>
        [] value.k = "slice" -> Len(value.v) = 0
        [] value.k = "bool" -> value.v = FALSE
        [] value.k = "int" -> value.v = 0
        [] OTHER -> FALSE  \* the code panics; no run of the model gets here

\* mutant: only cli.Context#IsSet is asked, the flag's EnvVar is not
CliValueIsSet_flagOnly(cliName) == cliName \in CLI.set

CliValueIsSet(cliName) ==
  IF cliName \in CLI.set
  THEN TRUE
  ELSE LET hits == { i \in 1..Len(CLI.flags) :
                       CLI.flags[i].Name = cliName /\ CLI.flags[i].EnvVar # <<>> }
       IN  IF hits = {}
           THEN FALSE
           ELSE Getenv(TrimSpace(CLI.flags[Min(hits)].EnvVar)) # <<>>

\* mutant: the environment fallback reads os.Getenv and skips an empty value
PositionalValue_nonEmptyEnv(f, argNum) ==
  LET argIndex == Atoi(argNum)
      fromArgs == IF Len(CLI.args) > argIndex.n
                  THEN StringV(CLI.args[argIndex.n + 1])
                  ELSE Nil
      fromEnv == IF Getenv(f.env) # <<>> THEN StringV(Getenv(f.env)) ELSE Nil
  IN  [err |-> NoErr, value |-> IF fromArgs.k # "nil" THEN fromArgs ELSE fromEnv]

\* The positional branch: the argument at the index, else the environment.
PositionalValue(f, argNum) ==
  LET argIndex == Atoi(argNum)
      fromArgs == IF Len(CLI.args) > argIndex.n
                  THEN StringV(CLI.args[argIndex.n + 1])
                  ELSE Nil
      fromEnv == IF LookupEnv(f.env).set THEN StringV(LookupEnv(f.env).v) ELSE Nil
  IN  IF ~argIndex.ok
      THEN [err |-> Error("atoi", f.name, FALSE, <<argNum>>), value |-> Nil]
      ELSE [err |-> NoErr, value |-> IF fromArgs.k # "nil" THEN fromArgs ELSE fromEnv]

\* The config file's value for the binding, converted to the field's kind.
ConfigFileValue(f) ==
  IF ~File.nil /\ f.cli \in DOMAIN File.Config
  THEN LET configFileValue == File.Config[f.cli]
       IN  CASE f.kind = "string" -> [err |-> NoErr, value |-> StringV(configFileValue)]
             [] f.kind = "slice" -> [err |-> NoErr, value |-> SliceV(Split(configFileValue))]
             [] f.kind = "bool" -> [err |-> NoErr, value |-> BoolV(ParseBool(configFileValue))]
             [] f.kind = "int" -> [err |-> NoErr, value |-> IntV(Atoi(configFileValue).n)]
             [] OTHER -> [err |-> Error("unsupported-type", f.name, FALSE, <<f.kind>>),
                          value |-> Nil]
  ELSE [err |-> NoErr, value |-> Nil]

\* The command context's value for the binding.
CliValue(f) ==
  IF f.kind \in Kinds
  THEN [err |-> NoErr, value |-> CliAccessor(f.cli, f.kind)]
  ELSE [err |-> Error("unsupported-type", f.name, FALSE, <<f.kind>>), value |-> Nil]

\* The named branch: the file's value, overridden by the command context
\* when the file has none or the binding is set.
NamedValue(f) ==
  LET fromFile == ConfigFileValue(f)
  IN  IF Failed(fromFile.err) THEN fromFile
      ELSE IF fromFile.value.k = "nil" \/ CliValueIsSet(f.cli) THEN CliValue(f)
      ELSE fromFile

SetFieldValueFromCLI(cfg, f) ==
  LET argMatch == FindStringSubmatch(f.cli)
      r == IF Len(argMatch) > 0 THEN PositionalValue(f, argMatch[2]) ELSE NamedValue(f)
  IN  IF Failed(r.err) THEN [err |-> r.err, cfg |-> cfg, assigned |-> FALSE]
      ELSE IF r.value.k = "nil" THEN [err |-> NoErr, cfg |-> cfg, assigned |-> FALSE]
      ELSE IF SetFieldOk(cfg, f.name, r.value)
      THEN [err |-> NoErr, cfg |-> SetField(cfg, f.name, r.value), assigned |-> TRUE]
      ELSE [err |-> Error("assignment", f.name, FALSE, <<r.value>>), cfg |-> cfg,
            assigned |-> FALSE]

\* mutant: the empty tokens are kept
RECURSIVE NormalizeList_keepsEmpty(_)
NormalizeList_keepsEmpty(valueAsSlice) ==
  IF Len(valueAsSlice) = 0 THEN <<>>
  ELSE Split(Head(valueAsSlice)) \o NormalizeList_keepsEmpty(Tail(valueAsSlice))

\* `list` normalization of a []string
RECURSIVE NormalizeList(_)
NormalizeList(valueAsSlice) ==
  IF Len(valueAsSlice) = 0 THEN <<>>
  ELSE SelectSeq(Split(Head(valueAsSlice)), LAMBDA normalized : normalized # <<>>)
         \o NormalizeList(Tail(valueAsSlice))

NormalizeField(cfg, f) ==
  LET value == cfg[f.name]
      schemaErr(kind) == [err |-> Error(kind, f.name, FALSE, <<f.normalize>>), cfg |-> cfg]
      set(v) == [err |-> NoErr, cfg |-> SetField(cfg, f.name, v)]
  IN  CASE f.normalize = <<"filepath">> ->
             IF value.k # "string" THEN schemaErr("normalize-kind")
             ELSE set(StringV(NormalizeFilePath(value.v)))
        [] f.normalize = <<"commandpath">> ->
             IF value.k # "string" THEN schemaErr("normalize-kind")
             ELSE set(StringV(NormalizeCommand(value.v)))
        [] f.normalize = <<"list">> ->
             IF value.k # "slice" THEN schemaErr("normalize-kind")
             ELSE set(SliceV(NormalizeList(value.v)))
        [] OTHER -> schemaErr("unknown-normalization")

RenameWarning(cliName, renamedFieldCliName) ==
  [kind |-> "renamed", name |-> cliName, detail |-> renamedFieldCliName]
DeprecationWarning(cliName, deprecationError) ==
  [kind |-> "deprecated", name |-> cliName, detail |-> deprecationError]

\* The rename check of a field with a deprecated-and-renamed-to tag.
RenameField(cfg, warns, f) ==
  IF FieldValueIsEmpty(cfg, f.name)
  THEN [err |-> NoErr, cfg |-> cfg, warnings |-> warns]
  ELSE LET renamedFieldCliName == FieldNamed(f.renamedTo).cli
           warned == IF renamedFieldCliName # <<>>
                     THEN Append(warns, RenameWarning(f.cli, renamedFieldCliName))
                     ELSE warns
           value == cfg[f.name]
       IN  IF ~FieldValueIsEmpty(cfg, f.renamedTo)
           THEN [err |-> Error("rename-conflict", <<>>, FALSE,
                               <<f.cli, value, renamedFieldCliName, cfg[f.renamedTo]>>),
                 cfg |-> cfg, warnings |-> warned]
           ELSE IF SetFieldOk(cfg, f.renamedTo, value)
           THEN [err |-> NoErr, cfg |-> SetField(cfg, f.renamedTo, value),
                 warnings |-> warned]
           ELSE [err |-> Error("assignment", f.renamedTo, FALSE, <<value>>), cfg |-> cfg,
                 warnings |-> warned]

\* The label of a field in a validation error.
Label(f) ==
  IF f.label # <<>> THEN f.label
  ELSE IF f.cli # <<>> THEN f.cli
  ELSE f.name

\* mutant: `required` fails through fmt.Errorf, as `file-exists` does
RuleError_plainRequired(cfg, fieldName, label, rule) ==
  CASE rule = <<"required">> ->
         IF FieldValueIsEmpty(cfg, fieldName)
         THEN Error("required", label, FALSE, <<>>)
         ELSE NoErr
    [] rule = <<"file-exists">> ->
         IF cfg[fieldName].k = "string" /\ ~Stat(cfg[fieldName].v)
         THEN Error("file-exists", label, FALSE, <<cfg[fieldName]>>)
         ELSE NoErr
    [] OTHER -> Error("unknown-rule", <<>>, FALSE, <<rule>>)

\* One validation rule on one field: the error it returns, or NoErr.
RuleError(cfg, fieldName, label, rule) ==
  CASE rule = <<"required">> ->
         IF FieldValueIsEmpty(cfg, fieldName)
         THEN Error("required", label, TRUE, <<>>)  \* l.Errorf: the --help suffix
         ELSE NoErr
    [] rule = <<"file-exists">> ->
         IF cfg[fieldName].k = "string" /\ ~Stat(cfg[fieldName].v)
         THEN Error("file-exists", label, FALSE, <<cfg[fieldName]>>)  \* fmt.Errorf
         ELSE NoErr
    [] OTHER -> Error("unknown-rule", <<>>, FALSE, <<rule>>)

ValidateField(cfg, fieldName, label, validationRules) ==
  LET rules == Split(validationRules)
      failing == { i \in 1..Len(rules) : Failed(RuleError(cfg, fieldName, label, rules[i])) }
  IN  IF failing = {} THEN NoErr
      ELSE RuleError(cfg, fieldName, label, rules[Min(failing)])

\* mutant: a missing --config falls back to the default paths
SelectConfigFile_fallsBack ==
  LET paths == DefaultConfigFilePaths
      hits == { i \in 1..Len(paths) : paths[i] \in FS.exists }
      asked == IF CLI.config # <<>> THEN <<CLI.config>> ELSE <<>>
  IN  IF CLI.config # <<>> /\ CLI.config \in FS.exists
      THEN [err |-> NoErr, file |-> [NoFile EXCEPT !.nil = FALSE, !.Path = CLI.config],
            consulted |-> asked]
      ELSE IF hits = {}
      THEN [err |-> NoErr, file |-> NoFile, consulted |-> asked \o paths]
      ELSE [err |-> NoErr,
            file |-> [NoFile EXCEPT !.nil = FALSE, !.Path = paths[Min(hits)]],
            consulted |-> asked \o SubSeq(paths, 1, Min(hits))]

\* Which config file Load selects: an existing --config, else the first
\* existing default path.
SelectConfigFile ==
  IF CLI.config # <<>>
  THEN IF CLI.config \in FS.exists
       THEN [err |-> NoErr, file |-> [NoFile EXCEPT !.nil = FALSE, !.Path = CLI.config],
             consulted |-> <<CLI.config>>]
       ELSE [err |-> Error("file-not-found", <<>>, FALSE, <<CLI.config>>),
             file |-> NoFile, consulted |-> <<CLI.config>>]
  ELSE LET paths == DefaultConfigFilePaths
           hits == { i \in 1..Len(paths) : paths[i] \in FS.exists }
       IN  IF hits = {}
           THEN [err |-> NoErr, file |-> NoFile, consulted |-> paths]
           ELSE [err |-> NoErr,
                 file |-> [NoFile EXCEPT !.nil = FALSE, !.Path = paths[Min(hits)]],
                 consulted |-> SubSeq(paths, 1, Min(hits))]

\* ------------------------------------------------------------- Load
\* mutant: the rename check runs before the normalization
StepAfter_migratesFirst(step) ==
  CASE step = "resolve" -> "rename"
    [] step = "rename" -> "normalize"
    [] step = "normalize" -> "deprecated"
    [] step = "deprecated" -> "validate"
    [] step = "validate" -> "resolve"
\* The statement after a step of the loop body.
StepAfter(step) ==
  CASE step = "resolve" -> "normalize"
    [] step = "normalize" -> "rename"
    [] step = "rename" -> "deprecated"
    [] step = "deprecated" -> "validate"
    [] step = "validate" -> "resolve"
\* mutant: a failed step does not return
After_continues(e, next) == next
\* The statement Load goes to after a step that returned e: a failed step
\* returns from Load.
After(e, next) == IF Failed(e) THEN "done" ELSE next
Continue(e, step) ==
  LET next == After(e, IF step = "validate" /\ idx = Len(fields)
                       THEN "done" ELSE StepAfter(step))
  IN  /\ pc' = next
      /\ idx' = IF next = "resolve" THEN idx + 1 ELSE idx
      /\ err' = IF Failed(e) THEN e ELSE err

SelectFile ==
  /\ pc = "select"
  /\ LET r == SelectConfigFile
     IN  /\ File' = r.file
         /\ consulted' = r.consulted
         /\ err' = r.err
         /\ pc' = After(r.err, "load")
  /\ UNCHANGED <<fields, CLI, Env, FS, DefaultConfigFilePaths, Config, warnings, idx, ran,
                 validated>>

LoadFile ==
  /\ pc = "load"
  /\ LET e == IF ~File.nil /\ File.Path \in FS.bad
              THEN Error("file-parse", <<>>, FALSE, <<File.Path>>)
              ELSE NoErr
     IN  /\ File' = IF File.nil \/ Failed(e) THEN File
                    ELSE [File EXCEPT !.Config = FS.contents[File.Path]]
         /\ err' = e
         /\ pc' = After(e, IF Len(fields) = 0 THEN "done" ELSE "resolve")
         /\ idx' = IF pc' = "resolve" THEN 1 ELSE idx
  /\ UNCHANGED <<fields, CLI, Env, FS, DefaultConfigFilePaths, Config, warnings, consulted,
                 ran, validated>>

Resolve ==
  /\ pc = "resolve"
  /\ LET f == fields[idx]
         r == IF f.cli # <<>> THEN SetFieldValueFromCLI(Config, f)
              ELSE [err |-> NoErr, cfg |-> Config, assigned |-> FALSE]
     IN  /\ Config' = r.cfg
         /\ ran' = ran \cup (IF f.cli # <<>> THEN { <<idx, "resolve">> } ELSE {})
                       \cup (IF r.assigned THEN { <<idx, "assign">> } ELSE {})
         /\ Continue(r.err, "resolve")
  /\ UNCHANGED <<fields, CLI, Env, FS, DefaultConfigFilePaths, File, warnings, consulted,
                 validated>>

Normalize ==
  /\ pc = "normalize"
  /\ LET f == fields[idx]
         r == IF f.normalize # <<>> THEN NormalizeField(Config, f)
              ELSE [err |-> NoErr, cfg |-> Config]
     IN  /\ Config' = r.cfg
         /\ ran' = ran \cup (IF f.normalize # <<>> THEN { <<idx, "normalize">> } ELSE {})
         /\ Continue(r.err, "normalize")
  /\ UNCHANGED <<fields, CLI, Env, FS, DefaultConfigFilePaths, File, warnings, consulted,
                 validated>>

Rename ==
  /\ pc = "rename"
  /\ LET f == fields[idx]
         r == IF f.renamedTo # <<>> THEN RenameField(Config, warnings, f)
              ELSE [err |-> NoErr, cfg |-> Config, warnings |-> warnings]
     IN  /\ Config' = r.cfg
         /\ warnings' = r.warnings
         /\ ran' = ran \cup (IF f.renamedTo # <<>> THEN { <<idx, "rename">> } ELSE {})
         /\ Continue(r.err, "rename")
  /\ UNCHANGED <<fields, CLI, Env, FS, DefaultConfigFilePaths, File, consulted, validated>>

Deprecated ==
  /\ pc = "deprecated"
  /\ LET f == fields[idx]
     IN  /\ warnings' = IF f.deprecated # <<>> /\ ~FieldValueIsEmpty(Config, f.name)
                        THEN Append(warnings, DeprecationWarning(f.cli, f.deprecated))
                        ELSE warnings
         /\ ran' = ran \cup (IF f.deprecated # <<>> THEN { <<idx, "deprecated">> } ELSE {})
         /\ Continue(NoErr, "deprecated")
  /\ UNCHANGED <<fields, CLI, Env, FS, DefaultConfigFilePaths, File, Config, consulted,
                 validated>>

Validate ==
  /\ pc = "validate"
  /\ LET f == fields[idx]
         e == IF f.validate # <<>> THEN ValidateField(Config, f.name, Label(f), f.validate)
              ELSE NoErr
     IN  /\ ran' = ran \cup (IF f.validate # <<>> THEN { <<idx, "validate">> } ELSE {})
         /\ validated' = validated
                            \cup (IF f.validate # <<>> THEN { <<f.name, Config[f.name]>> } ELSE {})
         /\ Continue(e, "validate")
  /\ UNCHANGED <<fields, CLI, Env, FS, DefaultConfigFilePaths, File, Config, warnings,
                 consulted>>

Next ==
  \/ SelectFile
  \/ LoadFile
  \/ Resolve
  \/ Normalize
  \/ Rename
  \/ Deprecated
  \/ Validate

Spec == Init /\ [][Next]_vars

\* ------------------------------------------------------------- claims
Returned == pc = "done"
Succeeded == pc = "done" /\ ~Failed(err)
IsPositional(f) == f.cli # <<>> /\ FindStringSubmatch(f.cli) # <<>>
IsNamed(f) == f.cli # <<>> /\ FindStringSubmatch(f.cli) = <<>>
\* field i has just been resolved
JustResolved(i) == pc = "normalize" /\ idx = i
\* the binding is set on the command line / through its flag's environment
\* variable / in the config file
OnCommandLine(f) == f.cli \in CLI.set
InEnvironment(f) ==
  \E k \in 1..Len(CLI.flags) :
    /\ CLI.flags[k].Name = f.cli
    /\ \E n \in DOMAIN Env : n = TrimSpace(CLI.flags[k].EnvVar) /\ Env[n].set /\ Env[n].v # <<>>
InFile(f) == ~File.nil /\ f.cli \in DOMAIN File.Config
Sourced(f) == f.cli # <<>> /\ (OnCommandLine(f) \/ InEnvironment(f) \/ InFile(f))
Converted(kind, s) ==
  CASE kind = "string" -> StringV(s)
    [] kind = "slice" -> SliceV(Split(s))
    [] kind = "bool" -> BoolV(ParseBool(s))
    [] kind = "int" -> IntV(Atoi(s).n)

\* C1: a named field of kind string, bool, int or list is resolved to the
\* command context's value when its binding is set on the command line, or
\* its flag's environment variable is non-empty, or the config file has no
\* entry for it; otherwise to the converted config file value, whatever the
\* flag's own value is.
C1_NamedPrecedence ==
  \A i \in 1..Len(fields) :
    (JustResolved(i) /\ IsNamed(fields[i]) /\ fields[i].kind \in Kinds) =>
      LET f == fields[i]
      IN  Config[f.name] =
            IF OnCommandLine(f) \/ InEnvironment(f) \/ ~InFile(f)
            THEN CLI.val[f.cli]
            ELSE Converted(f.kind, File.Config[f.cli])
\* a file value that won against a flag whose own value is not empty
C1_Witness ==
  \E i \in 1..Len(fields) :
    /\ JustResolved(i) /\ IsNamed(fields[i]) /\ fields[i].kind = "int"
    /\ InFile(fields[i]) /\ ~OnCommandLine(fields[i]) /\ ~InEnvironment(fields[i])
    /\ CLI.val[fields[i].cli] = IntV(5)
    /\ Config[fields[i].name] = IntV(6)

\* C4: an existing --config path is selected and no default path is looked
\* at; a missing one fails Load with file-not-found before any field is
\* touched; without --config the first existing default path is selected,
\* and with none existing Load goes on with no file and no error.
C4_FileSelection ==
  pc # "select" =>
    IF CLI.config # <<>>
    THEN IF CLI.config \in FS.exists
         THEN ~File.nil /\ File.Path = CLI.config /\ consulted = <<CLI.config>>
         ELSE /\ Returned /\ err.kind = "file-not-found" /\ File.nil
              /\ consulted = <<CLI.config>>
              /\ ran = {} /\ idx = 0
              /\ \A i \in 1..Len(fields) :
                   fields[i].cli # <<>> => Config[fields[i].name] = ZeroValue(fields[i].kind)
    ELSE LET paths == DefaultConfigFilePaths
         IN  IF \E k \in 1..Len(paths) : paths[k] \in FS.exists
             THEN /\ ~File.nil
                  /\ \E k \in 1..Len(paths) :
                       /\ paths[k] \in FS.exists
                       /\ \A j \in 1..(k - 1) : paths[j] \notin FS.exists
                       /\ File.Path = paths[k]
                  /\ err.kind # "file-not-found"
             ELSE File.nil /\ err.kind \notin { "file-not-found", "file-parse" }
                   /\ (pc = "load" \/ idx > 0 \/ Len(fields) = 0)
\* --config names a missing file while a default path exists
C4_Witness ==
  /\ Returned /\ err.kind = "file-not-found"
  /\ CLI.config # <<>> /\ CLI.config \notin FS.exists
  /\ \E k \in 1..Len(DefaultConfigFilePaths) : DefaultConfigFilePaths[k] \in FS.exists

\* C5: a positional field (of a string) bound to index n is resolved to the
\* argument at n when there are more than n arguments; else to its
\* environment variable's value when that variable is set; else nothing is
\* assigned and it keeps its value.  Neither file nor flags take part.
C5_Positional ==
  \A i \in 1..Len(fields) :
    (JustResolved(i) /\ IsPositional(fields[i]) /\ fields[i].kind = "string") =>
      LET f == fields[i]
          n == CHOOSE k \in 0..9 : f.cli = ArgName(k)
      IN  IF Len(CLI.args) > n
          THEN Config[f.name] = StringV(CLI.args[n + 1]) /\ <<i, "assign">> \in ran
          ELSE IF f.env \in DOMAIN Env /\ Env[f.env].set
          THEN Config[f.name] = StringV(Env[f.env].v) /\ <<i, "assign">> \in ran
          ELSE Config[f.name] = ZeroValue("string") /\ <<i, "assign">> \notin ran
\* no argument, the variable set (to the empty string), and a file entry and
\* nothing else for the binding
C5_Witness ==
  \E i \in 1..Len(fields) :
    /\ JustResolved(i) /\ IsPositional(fields[i]) /\ fields[i].kind = "string"
    /\ Len(CLI.args) = 0
    /\ fields[i].env \in DOMAIN Env /\ Env[fields[i].env].set /\ Env[fields[i].env].v = <<>>
    /\ InFile(fields[i])
    /\ <<i, "assign">> \in ran

\* the label a validation error of f is to carry: the declared label, else
\* the binding name, else the field name
ExpectedLabel(f) ==
  CASE f.label # <<>> -> f.label
    [] f.label = <<>> /\ f.cli # <<>> -> f.cli
    [] OTHER -> f.name
\* field i has been validated and nothing has run since
JustValidated(i) == idx = i /\ <<i, "validate">> \in ran
Rules(f) == Split(f.validate)
\* the first rule of f that its current value fails, 0 if none
FirstBroken(f) ==
  LET v == Config[f.name]
      broken(r) == \/ r = <<"required">> /\ FieldValueIsEmpty(Config, f.name)
                   \/ r = <<"file-exists">> /\ v.k = "string" /\ v.v \notin FS.exists
                   \/ r \notin { <<"required">>, <<"file-exists">> }
      bad == { k \in 1..Len(Rules(f)) : broken(Rules(f)[k]) }
  IN  IF bad = {} THEN 0 ELSE Min(bad)
ValidationKinds == { "required", "file-exists" }

\* C6 (as amended): a field whose value breaks `required` or `file-exists`
\* aborts Load with an error carrying the field's label; the `required`
\* error also carries the --help suggestion, the `file-exists` error does not.
C6_ValidationErrors ==
  /\ \A i \in 1..Len(fields) :
       (JustValidated(i) /\ FirstBroken(fields[i]) # 0
          /\ Rules(fields[i])[FirstBroken(fields[i])] \in { <<"required">>, <<"file-exists">> }) =>
         (Returned /\ err.kind = Rules(fields[i])[FirstBroken(fields[i])][1])
  /\ (err.kind \in ValidationKinds =>
        /\ Returned
        /\ JustValidated(idx)
        /\ err.label = ExpectedLabel(fields[idx])
        /\ err.help = (err.kind = "required"))
\* C6 (as claimed): every `required` and `file-exists` failure carries the
\* label and the --help suggestion.
C6_Original ==
  err.kind \in ValidationKinds =>
    /\ Returned
    /\ err.label = ExpectedLabel(fields[idx])
    /\ err.help
\* a `file-exists` failure of a field with a declared label
C6_Witness ==
  /\ Returned /\ err.kind = "file-exists"
  /\ fields[idx].label # <<>> /\ err.label = fields[idx].label

\* C7: the first failing step ends the pass: Load returns that error, no
\* later field has been or will be processed, and from then on no value, no
\* warning and not the error itself changes.
C7_FirstErrorEndsPass ==
  /\ [](Failed(err) => (Returned /\ \A e \in ran : e[1] <= idx))
  /\ [][Failed(err) => UNCHANGED <<Config, warnings, err, idx, ran, validated>>]_vars
\* a failure at a field that is not the last one
C7_Witness ==
  /\ Returned /\ Failed(err)
  /\ idx >= 1 /\ idx < Len(fields)
  /\ \E e \in ran : e[1] = idx

Tagged(i, step) ==
  CASE step = "resolve" -> fields[i].cli # <<>>
    [] step = "normalize" -> fields[i].normalize # <<>>
    [] step = "rename" -> fields[i].renamedTo # <<>>
    [] step = "deprecated" -> fields[i].deprecated # <<>>
    [] step = "validate" -> fields[i].validate # <<>>
\* no step of a field runs before a step that order lists earlier
InOrder(order) ==
  \A i \in 1..Len(fields) :
    \A a, b \in 1..Len(order) :
      (a < b /\ <<i, order[b]>> \in ran /\ Tagged(i, order[a])) => <<i, order[a]>> \in ran

\* C9 (as amended): the steps of a field run in the order resolution,
\* normalization, rename migration, deprecation, validation.
C9_StepOrder == InOrder(<<"resolve", "normalize", "rename", "deprecated", "validate">>)
\* C9 (as claimed): resolution, migration, normalization, validation.
C9_Original == InOrder(<<"resolve", "rename", "deprecated", "normalize", "validate">>)
\* a field with both tags has been normalized and then migrated
C9_Witness ==
  \E i \in 1..Len(fields) :
    /\ <<i, "normalize">> \in ran /\ <<i, "rename">> \in ran
    /\ ~FieldValueIsEmpty(Config, fields[i].name)

\* the elements of a list joined by commas, and the maximal comma-free runs
\* of a string in the order they occur
RECURSIVE Joined(_)
Joined(l) ==
  IF Len(l) = 0 THEN <<>>
  ELSE IF Len(l) = 1 THEN l[1]
  ELSE l[1] \o <<",">> \o Joined(Tail(l))
TokenStarts(s) == { p \in 1..Len(s) : s[p] # "," /\ (p = 1 \/ s[p - 1] = ",") }
TokenEnd(s, p) ==
  CHOOSE e \in p..Len(s) :
    (\A r \in p..e : s[r] # ",") /\ (e = Len(s) \/ s[e + 1] = ",")
TokensOf(s) ==
  [k \in 1..Cardinality(TokenStarts(s)) |->
     LET p == CHOOSE q \in TokenStarts(s) :
                Cardinality({ r \in TokenStarts(s) : r <= q }) = k
     IN  SubSeq(s, p, TokenEnd(s, p))]
\* field i has just been normalized as a list
JustListNormalized(i) ==
  /\ pc = "rename" /\ idx = i
  /\ fields[i].normalize = <<"list">> /\ fields[i].kind = "slice"

\* C8: `list` normalization leaves the comma-separated tokens of the
\* elements, in order, without the empty ones: no element of the result is
\* empty or holds a comma, and normalizing the result again changes nothing.
C8_ListNormalization ==
  \A i \in 1..Len(fields) :
    JustListNormalized(i) =>
      LET in == NamedValue(fields[i]).value.v
          out == Config[fields[i].name].v
      IN  /\ out = TokensOf(Joined(in))
          /\ \A k \in 1..Len(out) :
               out[k] # <<>> /\ \A c \in 1..Len(out[k]) : out[k][c] # ","
          /\ NormalizeList(out) = out
\* ["a,b", "", "c"] has become ["a", "b", "c"]
C8_Witness ==
  \E i \in 1..Len(fields) :
    /\ JustListNormalized(i)
    /\ NamedValue(fields[i]).value.v = ListExample
    /\ Config[fields[i].name].v = << <<"a">>, <<"b">>, <<"c">> >>

\* the value a field's own sources give it: resolved, then normalized
OwnValue(f) ==
  LET zero == [n \in DOMAIN Config |-> ZeroValue(Config[n].k)]
      r == SetFieldValueFromCLI(zero, f)
      n == IF f.normalize # <<>> /\ ~Failed(r.err) THEN NormalizeField(r.cfg, f) ELSE r
  IN  n.cfg[f.name]
Renamed == { i \in 1..Len(fields) : fields[i].renamedTo # <<>> }
RenameWarningsFor(f) ==
  { k \in 1..Len(warnings) : warnings[k].kind = "renamed" /\ warnings[k].name = f.cli }

\* C2 (as claimed): for a field F renamed to R, declared in either order:
\* when Load succeeds, F's value is not empty and no flag, environment
\* variable or file entry sets R, then R holds F's value and there is
\* exactly one rename warning for F.
C2_RenameMigrates ==
  Succeeded =>
    \A i \in Renamed :
      LET F == fields[i]
          R == FieldNamed(F.renamedTo)
      IN  (~FieldValueIsEmpty(Config, F.name) /\ ~Sourced(R)) =>
            /\ Config[R.name] = Config[F.name]
            /\ Cardinality(RenameWarningsFor(F)) = 1

\* C3 (as claimed): for a field F renamed to R, declared in either order:
\* when the user sets both to non-empty values, Load fails with the rename
\* conflict naming both bindings and both values.
C3_RenameConflict ==
  Returned =>
    \A i \in Renamed :
      LET F == fields[i]
          R == FieldNamed(F.renamedTo)
      IN  (/\ Sourced(F) /\ ~FieldValueIsEmpty(Config, F.name)
           /\ Sourced(R) /\ OwnValue(R).k = R.kind
           /\ ~FieldValueIsEmpty([Config EXCEPT ![R.name] = OwnValue(R)], R.name)) =>
            /\ err.kind = "rename-conflict"
            /\ err.detail = <<F.cli, Config[F.name], R.cli, OwnValue(R)>>

\* C10 (as claimed): validation is enforced on final values: after a
\* successful Load every validated field holds the value it was validated
\* with, and no field fails `required` when the rename migration of a field
\* declared after it would have filled it.
C10_ValidatesFinalValues ==
  /\ Succeeded => \A e \in validated : Config[e[1]] = e[2]
  /\ err.kind = "required" =>
       ~\E j \in Renamed :
          /\ j > idx
          /\ fields[j].renamedTo = fields[idx].name
          /\ ~FieldValueIsEmpty([Config EXCEPT ![fields[j].name] = OwnValue(fields[j])],
                                fields[j].name)
====
